---- MODULE Spec2Model ----
(***************************************************************************)
(* State-machine model of the hailo-finance-mentor request handlers:       *)
(*   askHandler      (src/src/app/page.tsx, lines 281-429)                 *)
(*   ttsHandler      (src/src/pages/api/tts.ts)                            *)
(*   uploadHandler   (src/upload.ts)                                       *)
(*   withApiKeyAuth  (src/unnamed/part_001)                                *)
(* and of the two versions of the client page that drive them:             *)
(*   addAudioElement (src/app/page.tsx)                                    *)
(*   onRecordingComplete / handleTextToSpeech (src/src/app/page.tsx).      *)
(*                                                                         *)
(* Every handler is cut at its await points; each action is the            *)
(* synchronous code that runs when the awaited call settles, and the       *)
(* outcome of the external call (resolve with a value / reject) is the     *)
(* action's input.  JavaScript strings that the code inspects are          *)
(* sequences of one-character strings; fixed messages are one-element      *)
(* sequences holding the message.                                          *)
(***************************************************************************)
EXTENDS Integers, Sequences, FiniteSets, TLC

VARIABLES
    env,      \* process.env of the server
    caller,   \* who issued the request of this behaviour
    files,    \* paths that exist on the server's disk
    index,    \* the Pinecone index: record id -> metadata text
    calls,    \* log of the external capability calls made, in order
    askReq,   \* the HTTP request handed to the ask route
    ask,      \* askHandler's position and local variables
    askRes,   \* responses sent on the ask route's `res`, in order
    ttsReq,   \* the HTTP request handed to the tts route
    tts,      \* ttsHandler's position and local variables
    ttsRes,   \* responses sent on the tts route's `res`, in order
    upReq,    \* the HTTP request handed to the upload route
    up,       \* uploadHandler's position and local variables
    upRes,    \* responses sent on the upload route's `res`, in order
    page,     \* the client page: React state and the position of its callback
    history,  \* what the earlier upload requests of this behaviour left
    ttsPool,  \* tts requests served at the same time, and the files they share
    pagePool  \* recordings the page handles at the same time, and what it shows

vars == <<env, caller, files, index, calls, askReq, ask, askRes,
          ttsReq, tts, ttsRes, upReq, up, upRes, page, history, ttsPool, pagePool>>

----------------------------------------------------------------------------
(* Values *)

NoPath == "undefined"          \* `undefined` for a string | undefined local
NoReq == [method |-> "none"]   \* no request received

DummyKey == "dummy_internal_key"
Keys == {"", DummyKey, "other_key"}

\* The message of an Error thrown by an external client.
ErrMsg == "message"

Json(status, body) == [status |-> status, body |-> body]

Count(cap) == Cardinality({i \in DOMAIN calls : calls[i].cap = cap})

\* The log with its last call, the one awaited, settled: "resolved" or "rejected".
Settled(how) == [calls EXCEPT ![Len(calls)].outcome = how]

\* The calls of a capability that were rejected.
Rejected(cap) ==
    {i \in DOMAIN calls : calls[i].cap = cap /\ calls[i].outcome = "rejected"}

Has(body, field) == field \in DOMAIN body

\* JavaScript truthiness of a string held as a sequence.
Truthy(s) == s # <<>>

----------------------------------------------------------------------------
(* withApiKeyAuth *)

\* Mutant: the keys are only compared, so that an unset configured key
\* matches a missing header.
Authorized_OnlyCompares(provided, expected) == provided = expected

\* The guard of the middleware: keys present and equal.
Authorized(provided, expected) ==
    ~ (expected = "" \/ provided = "" \/ provided # expected)

Unauthorized == Json(401, [error |-> "Unauthorized"])

MethodNotAllowed == [status |-> 405, body |-> [text |-> "Method Not Allowed"]]

----------------------------------------------------------------------------
(* Response Parser: the three expressions of askHandler that turn the      *)
(* model's raw text into scratchpad and finalAnswer.                       *)

OpenTag == "<scratchpad>"
CloseTag == "</scratchpad>"
NoScratchpad == <<"No scratchpad content found.">>

Min(S) == CHOOSE x \in S : \A y \in S : x <= y

\* First position >= from holding tok, 0 when there is none.
IndexFrom(s, tok, from) ==
    LET hits == {i \in from..Len(s) : s[i] = tok}
    IN IF hits = {} THEN 0 ELSE Min(hits)

\* responseContent.match(/<scratchpad>([\s\S]*?)<\/scratchpad>/): the
\* leftmost open tag that has a close tag after it, up to the nearest one.
ScratchpadMatch(s) ==
    LET i == IndexFrom(s, OpenTag, 1)
        j == IF i = 0 THEN 0 ELSE IndexFrom(s, CloseTag, i + 1)
    IN IF j = 0 THEN <<>> ELSE <<i, j>>

\* Mutant: the captured group, the block without its delimiters.
ExtractScratchpad_Inner(s) ==
    LET m == ScratchpadMatch(s)
    IN IF m = <<>> THEN NoScratchpad ELSE SubSeq(s, m[1] + 1, m[2] - 1)

ExtractScratchpad(s) ==
    LET m == ScratchpadMatch(s)
    IN IF m = <<>> THEN NoScratchpad ELSE SubSeq(s, m[1], m[2])

\* Mutant: the fallback keeps the block.
RemoveScratchpad_Nothing(s) == s

\* responseContent.replace(/<scratchpad>...<\/scratchpad>/, ''): the first
\* match only.
RemoveScratchpad(s) ==
    LET m == ScratchpadMatch(s)
    IN IF m = <<>> THEN s
       ELSE SubSeq(s, 1, m[1] - 1) \o SubSeq(s, m[2] + 1, Len(s))

MarkerAt(s, p) ==
    p + 2 <= Len(s) /\ s[p] = "#" /\ s[p + 1] = "#" /\ s[p + 2] = "#"

FirstMarker(s) ==
    LET hits == {p \in 1..Len(s) : MarkerAt(s, p)}
    IN IF hits = {} THEN 0 ELSE Min(hits)

\* String.prototype.split('###'): the pieces between the non-overlapping
\* occurrences of the marker, left to right.
RECURSIVE Split(_)
Split(s) ==
    LET p == FirstMarker(s)
    IN IF p = 0 THEN <<s>>
       ELSE <<SubSeq(s, 1, p - 1)>> \o Split(SubSeq(s, p + 3, Len(s)))

IsSpace(c) == c \in {" ", "\n"}

RECURSIVE TrimStart(_)
TrimStart(s) ==
    IF s # <<>> /\ IsSpace(Head(s)) THEN TrimStart(Tail(s)) ELSE s

RECURSIVE TrimEnd(_)
TrimEnd(s) ==
    IF s # <<>> /\ IsSpace(s[Len(s)])
    THEN TrimEnd(SubSeq(s, 1, Len(s) - 1)) ELSE s

Trim(s) == TrimEnd(TrimStart(s))

\* responseContent.split('###')?.[1]?.trim() || responseContent.replace(...).trim()
ExtractFinalAnswer(s) ==
    LET parts == Split(s)
        afterMarker == IF Len(parts) >= 2 THEN Trim(parts[2]) ELSE <<>>
    IN IF Truthy(afterMarker) THEN afterMarker ELSE Trim(RemoveScratchpad(s))

----------------------------------------------------------------------------
(* Context assembly *)

Separator == "\n\n---\n\n"
NoContext == <<"No relevant context found.">>
ContextUnavailable == <<"Error retrieving context from knowledge base.">>

RECURSIVE FilterBoolean(_)
FilterBoolean(texts) ==
    IF texts = <<>> THEN <<>>
    ELSE IF Head(texts) = "" THEN FilterBoolean(Tail(texts))
    ELSE <<Head(texts)>> \o FilterBoolean(Tail(texts))

\* Mutant: the texts are joined last to first.
RECURSIVE Join_Reversed(_)
Join_Reversed(texts) ==
    IF Len(texts) <= 1 THEN texts
    ELSE Join_Reversed(Tail(texts)) \o <<Separator, Head(texts)>>

RECURSIVE Join(_)
Join(texts) ==
    IF Len(texts) <= 1 THEN texts
    ELSE <<Head(texts), Separator>> \o Join(Tail(texts))

\* queryResponse.matches?.map(m => m.metadata?.text).filter(Boolean)
\*     .join('\n\n---\n\n') || 'No relevant context found.'
\* `matches` is the sequence of metadata texts ("" where a match has none).
FormatContext(matches) ==
    LET joined == Join(FilterBoolean(matches))
    IN IF Truthy(joined) THEN joined ELSE NoContext

----------------------------------------------------------------------------
(* Initial state *)

Envs == [INTERNAL_API_KEY : {"", DummyKey},
         NEXT_PUBLIC_INTERNAL_API_KEY : {"", DummyKey},
         apiKeys : BOOLEAN,             \* PINECONE_API_KEY, PINECONE_ENVIRONMENT, OPENAI_API_KEY all set
         ELEVENLABS_API_KEY : BOOLEAN]

AskIdle == [pc |-> "idle", audioFilePath |-> NoPath, transcription |-> "",
            queryText |-> "", matches |-> <<>>, context |-> <<>>,
            responseContent |-> <<>>]

\* `written` records whether writeFileSync created the temporary file.
TtsIdle == [pc |-> "idle", tempFilePath |-> NoPath, written |-> FALSE]

UpIdle == [pc |-> "idle", filePath |-> NoPath, fileName |-> "",
           chunks |-> 0, vectors |-> <<>>, i |-> 0]

\* The largest number of tts requests served at the same time.
MaxTtsRequests == 2

TtsRequests == 1..MaxTtsRequests

\* The temporary paths: requests that start in the same millisecond compute
\* the same one.
TtsPaths == {"/tmp/tts-now.mp3", "/tmp/tts-later.mp3"}

\* The content of a path that holds no file.
NoFile == <<>>

\* `req` is each request's position, locals and responses (`fault` records
\* the failure of the request's own call or file operation, `computed` the
\* path the request computed, which tempFilePath forgets); `data` is the
\* content of each temporary path.
TtsPoolIdle ==
    [req |-> [r \in TtsRequests |->
                 [pc |-> "idle", method |-> "none", key |-> "", text |-> <<>>,
                  tempFilePath |-> NoPath, computed |-> NoPath, res |-> <<>>,
                  fault |-> "none"]],
     data |-> [p \in TtsPaths |-> NoFile]]

\* The largest number of recordings the page handles at the same time.
MaxRecordings == 2

Recordings == 1..MaxRecordings

\* The page of `version`, mounted, before any recording of the pool:
\* `shown` is the React state the page renders, `inv` the position of the
\* callback invocation of each recording, `overlap` whether a recording
\* completed while another one's request was in flight.
PagePoolMounted(version) ==
    [version |-> version,
     shown |-> [asking |-> FALSE, ttsLoading |-> FALSE, error |-> <<>>,
                transcription |-> <<>>, answer |-> <<>>, scratchpad |-> <<>>,
                audioUrl |-> <<>>],
     inv |-> [r \in Recordings |-> "idle"],
     overlap |-> FALSE]

PagePoolIdle == PagePoolMounted("app")

\* useState initial values of Home.
\* `version` tells which of the two pages is mounted: "app" is
\* src/app/page.tsx (addAudioElement), "src" is src/src/app/page.tsx
\* (onRecordingComplete).  `tts` records what became of the page's
\* text-to-speech request.  audioUrl is the audioUrl state of the first and
\* audioRef.current.src of the second; <<>> is null.
PageIdle(version) ==
    [pc |-> "idle", version |-> version, internalApiKey |-> "",
     asking |-> FALSE, ttsLoading |-> FALSE, error |-> <<>>,
     transcription |-> "", answer |-> <<>>, scratchpad |-> <<>>,
     audioUrl |-> <<>>, tts |-> "notCalled"]

\* URL.createObjectURL(blob)
ObjectUrl(audio) == <<"blob:">> \o audio

\* The audio the synthesis capability produces for a text.
AudioOf(text) == <<"audio">> \o text

EarlierAnswer == <<"earlier answer">>

\* The page after an earlier recording was answered and played.
PageAfterEarlier(version) ==
    [PageIdle(version) EXCEPT
        !.internalApiKey = IF version = "app" THEN DummyKey ELSE "",
        !.transcription = "earlier question",
        !.answer = EarlierAnswer,
        !.scratchpad = <<"earlier scratchpad">>,
        !.audioUrl = ObjectUrl(AudioOf(EarlierAnswer))]

PageInits ==
    {PageIdle(v) : v \in {"app", "src"}} \cup {PageAfterEarlier(v) : v \in {"app", "src"}}

\* A record left in the index by an earlier ingestion.
OldId == <<"old.pdf", "-chunk-", 0>>
OldIndex == (OldId :> <<"old text">>)

Init ==
    /\ env \in Envs
    /\ caller = "none"
    /\ files = {}
    /\ index = OldIndex
    /\ calls = <<>>
    /\ askReq = NoReq /\ ask = AskIdle /\ askRes = <<>>
    /\ ttsReq = NoReq /\ tts = TtsIdle /\ ttsRes = <<>>
    /\ upReq = NoReq /\ up = UpIdle /\ upRes = <<>>
    /\ page \in PageInits
    /\ history = <<>>
    /\ ttsPool = TtsPoolIdle
    /\ pagePool = PagePoolIdle

----------------------------------------------------------------------------
(* askHandler, src/src/app/page.tsx *)

AskForms == {"audio", "noAudio", "notMultipart", "tooLarge"}
Questions == {"", "what is npv"}
Transcripts == {"", "what is wacc"}

\* Where multer (dest: '/tmp/') stores the uploaded audio.
AudioPath == "/tmp/audio-upload"

\* if (p && fs.existsSync(p)) fs.unlinkSync(p)
Unlink(fs, path) == IF path # NoPath /\ path \in fs THEN fs \ {path} ELSE fs

AskRespond(r) == askRes' = Append(askRes, r)

AskUnchangedOthers ==
    UNCHANGED <<env, caller, index, askReq, ttsReq, tts, ttsRes, upReq, up, upRes, page,
                history,
                ttsPool, pagePool>>

\* A caller other than the page (any HTTP client) posts to /api/ask.
DirectAsk ==
    /\ caller = "none"
    /\ \E m \in {"POST", "GET"}, k \in Keys, f \in AskForms, q \in Questions :
          askReq' = [method |-> m, key |-> k, form |-> f, question |-> q]
    /\ caller' = "direct"
    /\ ask' = [ask EXCEPT !.pc = "received"]
    /\ UNCHANGED <<env, files, index, calls, askRes, ttsReq, tts, ttsRes,
                   upReq, up, upRes, page, history, ttsPool, pagePool>>

\* withApiKeyAuth(askHandler) up to the first await (runMiddleware).
AskEntry ==
    /\ ask.pc = "received"
    /\ IF ~ Authorized(askReq.key, env.INTERNAL_API_KEY)
       THEN AskRespond(Unauthorized) /\ ask' = [ask EXCEPT !.pc = "done"]
       ELSE IF askReq.method # "POST"
       THEN AskRespond(MethodNotAllowed) /\ ask' = [ask EXCEPT !.pc = "done"]
       ELSE UNCHANGED askRes /\ ask' = [ask EXCEPT !.pc = "multer"]
    /\ UNCHANGED <<files, calls>>
    /\ AskUnchangedOthers

\* The outer catch: cleanup, then the response chosen by error.code.
AskOuterCatch(path, code) ==
    /\ files' = Unlink(files, path)
    /\ AskRespond(IF code = "LIMIT_FILE_SIZE"
                  THEN Json(400, [error |-> "Audio file size limit exceeded."])
                  ELSE Json(500, [error |-> "Failed to process the request.",
                                  details |-> ErrMsg]))
    /\ ask' = [ask EXCEPT !.pc = "done"]

\* runMiddleware rejects: multer reports LIMIT_FILE_SIZE.
AskMulterRejected ==
    /\ ask.pc = "multer" /\ askReq.form = "tooLarge"
    /\ AskOuterCatch(ask.audioFilePath, "LIMIT_FILE_SIZE")
    /\ UNCHANGED calls
    /\ AskUnchangedOthers

\* The request is not multipart: multer leaves req.body undefined and
\* req.body.question throws a TypeError into the outer catch.
AskNoBody ==
    /\ ask.pc = "multer" /\ askReq.form = "notMultipart"
    /\ AskOuterCatch(ask.audioFilePath, "TypeError")
    /\ UNCHANGED calls
    /\ AskUnchangedOthers

\* if (!audioFile) return 400
AskNoAudio ==
    /\ ask.pc = "multer" /\ askReq.form = "noAudio"
    /\ AskRespond(Json(400, [error |-> "No audio file uploaded."]))
    /\ ask' = [ask EXCEPT !.pc = "done"]
    /\ UNCHANGED <<files, calls>>
    /\ AskUnchangedOthers

\* The file is stored, audioFilePath is set, and an API key is missing.
AskMissingConfig ==
    /\ ask.pc = "multer" /\ askReq.form = "audio" /\ ~ env.apiKeys
    /\ files' = files \cup {AudioPath}
    /\ AskRespond(Json(500, [error |-> "Server configuration error: Missing API keys."]))
    /\ ask' = [ask EXCEPT !.pc = "done", !.audioFilePath = AudioPath]
    /\ UNCHANGED calls
    /\ AskUnchangedOthers

\* The file is stored and `new OpenAI(...)` throws into the outer catch.
AskClientThrows ==
    /\ ask.pc = "multer" /\ askReq.form = "audio" /\ env.apiKeys
    /\ files' = Unlink(files \cup {AudioPath}, AudioPath)
    /\ AskRespond(Json(500, [error |-> "Failed to process the request.",
                             details |-> ErrMsg]))
    /\ ask' = [ask EXCEPT !.pc = "done", !.audioFilePath = AudioPath]
    /\ UNCHANGED calls
    /\ AskUnchangedOthers

\* The file is stored and the transcription call is made.
AskStartTranscription ==
    /\ ask.pc = "multer" /\ askReq.form = "audio" /\ env.apiKeys
    /\ files' = files \cup {AudioPath}
    /\ calls' = Append(calls, [cap |-> "transcribe", outcome |-> "pending", file |-> AudioPath])
    /\ ask' = [ask EXCEPT !.pc = "transcribe", !.audioFilePath = AudioPath]
    /\ UNCHANGED askRes
    /\ AskUnchangedOthers

TranscriptionError ==
    Json(500, [error |-> "Failed to transcribe audio.", details |-> ErrMsg])

\* Mutant: the transcription is preferred to the supplied question.
QueryText_TranscriptionFirst(question, transcription) ==
    IF transcription # "" THEN transcription ELSE question

\* const queryText = question || transcription
QueryText(question, transcription) ==
    IF question # "" THEN question ELSE transcription

\* Mutant: the catch logs and does not return; the handler goes on with
\* the empty transcription.
AskTranscriptionFailed_NoReturn ==
    /\ ask.pc = "transcribe"
    /\ LET q == QueryText(askReq.question, "") IN
       /\ files' = Unlink(files, ask.audioFilePath)
       /\ IF q = ""
          THEN /\ AskRespond(Json(400, [error |-> "No query provided (either question text or audio transcription)."]))
               /\ ask' = [ask EXCEPT !.pc = "done", !.audioFilePath = NoPath]
               /\ calls' = Settled("rejected")
          ELSE /\ calls' = Append(Settled("rejected"),
                                  [cap |-> "embedQuery", outcome |-> "pending", text |-> q])
               /\ ask' = [ask EXCEPT !.pc = "embed", !.audioFilePath = NoPath,
                                     !.queryText = q]
               /\ UNCHANGED askRes
    /\ AskUnchangedOthers

\* Mutant: the catch makes the transcription call a second time.
AskTranscriptionFailed_Retry ==
    /\ ask.pc = "transcribe"
    /\ IF Count("transcribe") < 2
       THEN /\ calls' = Append(Settled("rejected"),
                               [cap |-> "transcribe", outcome |-> "pending",
                                file |-> AudioPath])
            /\ UNCHANGED <<ask, askRes>>
       ELSE /\ calls' = Settled("rejected")
            /\ AskRespond(TranscriptionError)
            /\ ask' = [ask EXCEPT !.pc = "done"]
    /\ UNCHANGED files
    /\ AskUnchangedOthers

\* catch (transcriptionError): return the error response.
AskTranscriptionFailed ==
    /\ ask.pc = "transcribe"
    /\ calls' = Settled("rejected")
    /\ AskRespond(TranscriptionError)
    /\ ask' = [ask EXCEPT !.pc = "done"]
    /\ UNCHANGED files
    /\ AskUnchangedOthers

\* The transcription resolves: cleanup, queryText, and the embedding call.
AskTranscriptionOk ==
    /\ ask.pc = "transcribe"
    /\ \E t \in Transcripts :
         LET q == QueryText(askReq.question, t) IN
         /\ files' = Unlink(files, ask.audioFilePath)
         /\ IF q = ""
            THEN /\ AskRespond(Json(400, [error |-> "No query provided (either question text or audio transcription)."]))
                 /\ ask' = [ask EXCEPT !.pc = "done", !.audioFilePath = NoPath,
                                       !.transcription = t]
                 /\ calls' = Settled("resolved")
            ELSE /\ calls' = Append(Settled("resolved"), [cap |-> "embedQuery", outcome |-> "pending", text |-> q])
                 /\ ask' = [ask EXCEPT !.pc = "embed", !.audioFilePath = NoPath,
                                       !.transcription = t, !.queryText = q]
                 /\ UNCHANGED askRes
    /\ AskUnchangedOthers

\* The system prompt embeds the context; the user message is queryText.
GenerateCall(ctx) ==
    [cap |-> "generate", outcome |-> "pending", context |-> ctx,
     question |-> ask.queryText]

StartGeneration(ctx, how) ==
    /\ calls' = Append(Settled(how), GenerateCall(ctx))
    /\ ask' = [ask EXCEPT !.pc = "generate", !.context = ctx]
    /\ UNCHANGED <<files, askRes>>

\* catch (pineconeError) after embedQuery rejected.
AskEmbedFailed ==
    /\ ask.pc = "embed"
    /\ StartGeneration(ContextUnavailable, "rejected")
    /\ AskUnchangedOthers

AskEmbedOk ==
    /\ ask.pc = "embed"
    /\ calls' = Append(Settled("resolved"), [cap |-> "query", outcome |-> "pending", topK |-> 5])
    /\ ask' = [ask EXCEPT !.pc = "query"]
    /\ UNCHANGED <<files, askRes>>
    /\ AskUnchangedOthers

\* Mutant: the catch returns the error response the code keeps commented out.
AskQueryFailed_ReturnsError ==
    /\ ask.pc = "query"
    /\ calls' = Settled("rejected")
    /\ AskRespond(Json(500, [error |-> "Failed to retrieve context from Pinecone.",
                             details |-> ErrMsg]))
    /\ ask' = [ask EXCEPT !.pc = "done"]
    /\ UNCHANGED files
    /\ AskUnchangedOthers

\* catch (pineconeError) after index.query rejected.
AskQueryFailed ==
    /\ ask.pc = "query"
    /\ StartGeneration(ContextUnavailable, "rejected")
    /\ AskUnchangedOthers

\* What the index may return: metadata texts in descending score order.
MatchLists ==
    {<<>>, <<"m1">>, <<"m2", "m1">>, <<"m1", "">>, <<"">>, <<"m3", "", "m1">>,
     <<"m1", "m1">>}

AskQueryOk ==
    /\ ask.pc = "query"
    /\ \E ms \in MatchLists :
          /\ calls' = Append(Settled("resolved"), GenerateCall(FormatContext(ms)))
          /\ ask' = [ask EXCEPT !.pc = "generate", !.matches = ms,
                                !.context = FormatContext(ms)]
    /\ UNCHANGED <<files, askRes>>
    /\ AskUnchangedOthers

GenerationError ==
    Json(500, [error |-> "Failed to get answer from AI model.", details |-> ErrMsg])

\* Mutant: the catch answers with a fallback text instead of the error.
AskGenerationFailed_FallbackAnswer ==
    /\ ask.pc = "generate"
    /\ calls' = Settled("rejected")
    /\ AskRespond(Json(200, [answer |-> <<"Sorry, no answer.">>,
                             scratchpad |-> NoScratchpad,
                             transcription |-> ask.transcription]))
    /\ ask' = [ask EXCEPT !.pc = "done"]
    /\ UNCHANGED files
    /\ AskUnchangedOthers

\* catch (gptError): the call rejected.
AskGenerationFailed ==
    /\ ask.pc = "generate"
    /\ calls' = Settled("rejected")
    /\ AskRespond(GenerationError)
    /\ ask' = [ask EXCEPT !.pc = "done"]
    /\ UNCHANGED files
    /\ AskUnchangedOthers

\* Raw texts the model may return (<<>> is an empty or missing content).
RawTexts ==
    { <<>>,
      <<OpenTag, "t", CloseTag, "#", "#", "#", " ", "f", " ">>,
      <<"f", " ", "g">>,
      <<OpenTag, "t", CloseTag>>,
      <<OpenTag, "t", CloseTag, "\n", "f">> }

\* Mutant: a text without a reasoning block makes the parse throw into
\* catch (gptError).
AskSuccess_Throws(raw, transcription) ==
    IF ScratchpadMatch(raw) = <<>> THEN GenerationError
    ELSE Json(200, [answer |-> ExtractFinalAnswer(raw),
                    scratchpad |-> ExtractScratchpad(raw),
                    transcription |-> transcription])

AskSuccess(raw, transcription) ==
    Json(200, [answer |-> ExtractFinalAnswer(raw),
               scratchpad |-> ExtractScratchpad(raw),
               transcription |-> transcription])

\* The call resolves: empty content throws into catch (gptError), any other
\* content is parsed and sent.
AskGenerated(raws) ==
    /\ ask.pc = "generate"
    /\ \E raw \in raws :
         /\ AskRespond(IF ~ Truthy(raw) THEN GenerationError
                       ELSE AskSuccess(raw, ask.transcription))
         /\ ask' = [ask EXCEPT !.pc = "done", !.responseContent = raw]
    /\ calls' = Settled("resolved")
    /\ UNCHANGED files
    /\ AskUnchangedOthers

AskGenerationOk == AskGenerated(RawTexts)

\* The pieces the bounded raw texts are made of.
Segments ==
    {<<"#", "#", "#">>, <<"#">>, <<OpenTag>>, <<CloseTag>>, <<" ">>, <<"a">>}

\* The largest number of pieces of a raw text.
MaxSegments == 5

RECURSIVE Texts(_)
Texts(k) ==
    IF k = 0 THEN {<<>>}
    ELSE LET shorter == Texts(k - 1)
         IN shorter \cup {t \o g : t \in shorter, g \in Segments}

\* "<scratchpad>think</scratchpad>###  final "
ExampleText ==
    <<OpenTag, "t", "h", "i", "n", "k", CloseTag, "#", "#", "#", " ", " ",
      "f", "i", "n", "a", "l", " ">>

\* Every raw text of at most MaxSegments pieces, and the example.
ParserTexts == Texts(MaxSegments) \cup {ExampleText}

\* The generation call resolves with any of the bounded raw texts.
AskGenerationOkAny == AskGenerated(ParserTexts)

NextAsk ==
    \/ DirectAsk \/ AskEntry
    \/ AskMulterRejected \/ AskNoBody \/ AskNoAudio \/ AskMissingConfig
    \/ AskClientThrows \/ AskStartTranscription
    \/ AskTranscriptionFailed \/ AskTranscriptionOk
    \/ AskEmbedFailed \/ AskEmbedOk \/ AskQueryFailed \/ AskQueryOk
    \/ AskGenerationFailed \/ AskGenerationOk

----------------------------------------------------------------------------
(* ttsHandler, src/src/pages/api/tts.ts *)

\* path.join(os.tmpdir(), `tts-${Date.now()}.mp3`)
TtsPath == "/tmp/tts-now.mp3"

TtsRespond(r) == ttsRes' = Append(ttsRes, r)

TtsUnchangedOthers ==
    UNCHANGED <<env, caller, index, askReq, ask, askRes, ttsReq, upReq, up, upRes, page,
                history,
                ttsPool, pagePool>>

TtsTexts == {<<>>, <<"f">>}

\* A caller other than the page posts to /api/tts.
DirectTts ==
    /\ caller = "none"
    /\ \E m \in {"POST", "GET"}, k \in Keys, isString \in BOOLEAN, t \in TtsTexts :
          ttsReq' = [method |-> m, key |-> k, isString |-> isString, text |-> t]
    /\ caller' = "directTts"
    /\ tts' = [tts EXCEPT !.pc = "received"]
    /\ UNCHANGED <<env, files, index, calls, askReq, ask, askRes, ttsRes,
                   upReq, up, upRes, page, history, ttsPool, pagePool>>

\* withApiKeyAuth(ttsHandler) up to the checks that precede the client.
TtsEntry ==
    /\ tts.pc = "received"
    /\ IF ~ Authorized(ttsReq.key, env.INTERNAL_API_KEY)
       THEN TtsRespond(Unauthorized) /\ tts' = [tts EXCEPT !.pc = "done"]
       ELSE IF ttsReq.method # "POST"
       THEN TtsRespond(MethodNotAllowed) /\ tts' = [tts EXCEPT !.pc = "done"]
       ELSE IF ~ Truthy(ttsReq.text) \/ ~ ttsReq.isString
       THEN /\ TtsRespond(Json(400, [error |-> "Text parameter is required and must be a string."]))
            /\ tts' = [tts EXCEPT !.pc = "done"]
       ELSE IF ~ env.ELEVENLABS_API_KEY
       THEN /\ TtsRespond(Json(500, [error |-> "Server configuration error: Missing ElevenLabs API key."]))
            /\ tts' = [tts EXCEPT !.pc = "done"]
       ELSE UNCHANGED ttsRes /\ tts' = [tts EXCEPT !.pc = "client"]
    /\ UNCHANGED <<files, calls>>
    /\ TtsUnchangedOthers

\* `new ElevenLabs(...)` throws into the outer catch; tempFilePath is unset.
TtsClientThrows ==
    /\ tts.pc = "client"
    /\ files' = Unlink(files, tts.tempFilePath)
    /\ TtsRespond(Json(500, [error |-> "Failed to process the request.",
                             details |-> ErrMsg]))
    /\ tts' = [tts EXCEPT !.pc = "done"]
    /\ UNCHANGED calls
    /\ TtsUnchangedOthers

\* tempFilePath is computed and the synthesis call is made.
TtsStartSynthesis ==
    /\ tts.pc = "client"
    /\ calls' = Append(calls, [cap |-> "synthesize", outcome |-> "pending", text |-> ttsReq.text])
    /\ tts' = [tts EXCEPT !.pc = "synthesize", !.tempFilePath = TtsPath]
    /\ UNCHANGED <<files, ttsRes>>
    /\ TtsUnchangedOthers

\* Mutant: the catch sends the error response without the cleanup.
TtsInnerCatch_NoCleanup(fs) ==
    /\ files' = fs
    /\ TtsRespond(Json(500, [error |-> "Failed to generate speech from text.",
                             details |-> ErrMsg]))
    /\ tts' = [tts EXCEPT !.pc = "done", !.written = tts.tempFilePath \in fs]

\* catch (ttsError): cleanup, then the error response.
TtsInnerCatch(fs) ==
    /\ files' = Unlink(fs, tts.tempFilePath)
    /\ TtsRespond(Json(500, [error |-> "Failed to generate speech from text.",
                             details |-> ErrMsg]))
    /\ tts' = [tts EXCEPT !.pc = "done", !.written = tts.tempFilePath \in fs]

\* elevenlabs.textToSpeech rejects.
TtsSynthesisFailed ==
    /\ tts.pc = "synthesize"
    /\ TtsInnerCatch(files)
    /\ calls' = Settled("rejected")
    /\ TtsUnchangedOthers

TtsSynthesisOk ==
    /\ tts.pc = "synthesize"
    /\ tts' = [tts EXCEPT !.pc = "arrayBuffer"]
    /\ calls' = Settled("resolved")
    /\ UNCHANGED <<files, ttsRes>>
    /\ TtsUnchangedOthers

\* audioStream.arrayBuffer() rejects.
TtsStreamFailed ==
    /\ tts.pc = "arrayBuffer"
    /\ TtsInnerCatch(files)
    /\ UNCHANGED calls
    /\ TtsUnchangedOthers

\* fs.writeFileSync throws; the file may have been created already.
TtsWriteFailed ==
    /\ tts.pc = "arrayBuffer"
    /\ \E created \in BOOLEAN :
          TtsInnerCatch(IF created THEN files \cup {tts.tempFilePath} ELSE files)
    /\ UNCHANGED calls
    /\ TtsUnchangedOthers

\* fs.readFileSync throws after the file was written.
TtsReadFailed ==
    /\ tts.pc = "arrayBuffer"
    /\ TtsInnerCatch(files \cup {tts.tempFilePath})
    /\ UNCHANGED calls
    /\ TtsUnchangedOthers

\* write, read, send, then the cleanup after successful sending.
TtsSend ==
    /\ tts.pc = "arrayBuffer"
    /\ TtsRespond([status |-> 200, body |-> [audio |-> AudioOf(ttsReq.text)]])
    /\ files' = Unlink(files \cup {tts.tempFilePath}, tts.tempFilePath)
    /\ tts' = [tts EXCEPT !.pc = "done", !.tempFilePath = NoPath, !.written = TRUE]
    /\ UNCHANGED calls
    /\ TtsUnchangedOthers

\* The responses a handler whose unlinkSync throws after the 200 was sent
\* goes on to send: catch (ttsError) when its own unlink works, the outer
\* catch when that one throws and the outer unlink works, the catch of
\* withApiKeyAuth when all three throw.
AfterSendErrors ==
    {Json(500, [error |-> "Failed to generate speech from text.", details |-> ErrMsg]),
     Json(500, [error |-> "Failed to process the request.", details |-> ErrMsg]),
     Json(500, [error |-> "Internal Server Error", details |-> ErrMsg])}

\* write, read, send, and then fs.unlinkSync throws in the cleanup after
\* successful sending: the catches run although the response was sent.
TtsUnlinkFailed ==
    /\ tts.pc = "arrayBuffer"
    /\ \E second \in AfterSendErrors :
          /\ ttsRes' = ttsRes \o <<[status |-> 200, body |-> [audio |-> AudioOf(ttsReq.text)]],
                                   second>>
          /\ files' = IF second.body.error = "Internal Server Error"
                      THEN files \cup {tts.tempFilePath}
                      ELSE Unlink(files \cup {tts.tempFilePath}, tts.tempFilePath)
    /\ tts' = [tts EXCEPT !.pc = "done", !.written = TRUE]
    /\ UNCHANGED calls
    /\ TtsUnchangedOthers

NextTts ==
    \/ DirectTts \/ TtsEntry \/ TtsClientThrows \/ TtsStartSynthesis
    \/ TtsSynthesisFailed \/ TtsSynthesisOk \/ TtsStreamFailed
    \/ TtsWriteFailed \/ TtsReadFailed \/ TtsSend

----------------------------------------------------------------------------
(* ttsHandler serving several requests at once: the handlers interleave at *)
(* their await points (textToSpeech, arrayBuffer) and share the temporary  *)
(* directory; what runs between two awaits runs without interruption.     *)

\* Each request asks for another text.
PoolText(r) == <<"text", r>>

FullEnv ==
    [INTERNAL_API_KEY |-> DummyKey, NEXT_PUBLIC_INTERNAL_API_KEY |-> DummyKey,
     apiKeys |-> TRUE, ELEVENLABS_API_KEY |-> TRUE]

\* Both requests have been received; nothing else is going on.
InitTtsPool ==
    /\ env = FullEnv
    /\ caller = "pool"
    /\ files = {}
    /\ index = OldIndex
    /\ calls = <<>>
    /\ askReq = NoReq /\ ask = AskIdle /\ askRes = <<>>
    /\ ttsReq = NoReq /\ tts = TtsIdle /\ ttsRes = <<>>
    /\ upReq = NoReq /\ up = UpIdle /\ upRes = <<>>
    /\ page = PageIdle("src")
    /\ history = <<>>
    /\ ttsPool = [TtsPoolIdle EXCEPT
                     !.req = [r \in TtsRequests |->
                                [@[r] EXCEPT !.pc = "received", !.method = "POST",
                                             !.key = DummyKey, !.text = PoolText(r)]]]
    /\ pagePool = PagePoolIdle

TtsPoolUnchangedOthers ==
    UNCHANGED <<env, caller, index, calls, askReq, ask, askRes,
                ttsReq, tts, ttsRes, upReq, up, upRes, page, history, pagePool>>

\* The paths that exist, given the content of the temporary paths.
PoolFiles(data) == (files \ TtsPaths) \cup {p \in TtsPaths : data[p] # NoFile}

\* if (tempFilePath && fs.existsSync(tempFilePath)) fs.unlinkSync(tempFilePath)
PoolUnlink(data, path) ==
    IF path # NoPath /\ data[path] # NoFile THEN [data EXCEPT ![path] = NoFile]
    ELSE data

\* Request r moves to pc, with res appended when there is one.
PoolMove(r, pc, res) ==
    [ttsPool.req EXCEPT ![r].pc = pc, ![r].res = @ \o res]

TtsPoolEntry(r) ==
    LET q == ttsPool.req[r] IN
    /\ q.pc = "received"
    /\ ttsPool' = [ttsPool EXCEPT !.req =
          IF ~ Authorized(q.key, env.INTERNAL_API_KEY)
          THEN PoolMove(r, "done", <<Unauthorized>>)
          ELSE IF q.method # "POST"
          THEN PoolMove(r, "done", <<MethodNotAllowed>>)
          ELSE IF ~ Truthy(q.text)
          THEN PoolMove(r, "done",
                   <<Json(400, [error |-> "Text parameter is required and must be a string."])>>)
          ELSE IF ~ env.ELEVENLABS_API_KEY
          THEN PoolMove(r, "done",
                   <<Json(500, [error |-> "Server configuration error: Missing ElevenLabs API key."])>>)
          ELSE PoolMove(r, "client", <<>>)]
    /\ UNCHANGED files
    /\ TtsPoolUnchangedOthers

\* tempFilePath = tmpdir / `tts-${Date.now()}.mp3`, then the synthesis call.
TtsPoolStartSynthesis(r) ==
    /\ ttsPool.req[r].pc = "client"
    /\ \E p \in TtsPaths :
          ttsPool' = [ttsPool EXCEPT !.req[r].pc = "synthesize",
                                     !.req[r].tempFilePath = p,
                                     !.req[r].computed = p]
    /\ UNCHANGED files
    /\ TtsPoolUnchangedOthers

\* catch (ttsError) of request r, entered with the temporary paths holding
\* `data` because of r's own `fault`: cleanup, then the error response.
TtsPoolCatch(r, data, fault) ==
    LET cleaned == PoolUnlink(data, ttsPool.req[r].tempFilePath) IN
    /\ ttsPool' = [req |-> [PoolMove(r, "done",
                               <<Json(500, [error |-> "Failed to generate speech from text.",
                                            details |-> ErrMsg])>>)
                              EXCEPT ![r].fault = fault],
                   data |-> cleaned]
    /\ files' = PoolFiles(cleaned)

TtsPoolSynthesisFailed(r) ==
    /\ ttsPool.req[r].pc = "synthesize"
    /\ TtsPoolCatch(r, ttsPool.data, "synthesis")
    /\ TtsPoolUnchangedOthers

TtsPoolSynthesisOk(r) ==
    /\ ttsPool.req[r].pc = "synthesize"
    /\ ttsPool' = [ttsPool EXCEPT !.req[r].pc = "arrayBuffer"]
    /\ UNCHANGED files
    /\ TtsPoolUnchangedOthers

\* arrayBuffer() rejects, writeFileSync throws (the file may have been
\* created) or readFileSync throws.
TtsPoolFileFailed(r) ==
    LET path == ttsPool.req[r].tempFilePath IN
    /\ ttsPool.req[r].pc = "arrayBuffer"
    /\ \/ TtsPoolCatch(r, ttsPool.data, "stream")
       \/ TtsPoolCatch(r, ttsPool.data, "write")
       \/ TtsPoolCatch(r, [ttsPool.data EXCEPT ![path] = <<"partial">>], "write")
       \/ TtsPoolCatch(r, [ttsPool.data EXCEPT ![path] = AudioOf(ttsPool.req[r].text)],
                       "read")
    /\ TtsPoolUnchangedOthers

\* Mutant: the write is awaited (fs.promises.writeFile), so that other
\* requests run between the write and the read.
TtsPoolSend_AwaitsWrite(r) ==
    LET q == ttsPool.req[r]
        path == q.tempFilePath IN
    /\ q.pc \in {"arrayBuffer", "written"}
    /\ IF q.pc = "arrayBuffer"
       THEN LET written == [ttsPool.data EXCEPT ![path] = AudioOf(q.text)] IN
            /\ ttsPool' = [req |-> PoolMove(r, "written", <<>>), data |-> written]
            /\ files' = PoolFiles(written)
       ELSE IF ttsPool.data[path] = NoFile
       THEN TtsPoolCatch(r, ttsPool.data, "none")
       ELSE LET cleaned == PoolUnlink(ttsPool.data, path) IN
            /\ ttsPool' =
                  [req |-> [PoolMove(r, "done",
                               <<[status |-> 200, body |-> [audio |-> ttsPool.data[path]]]>>)
                            EXCEPT ![r].tempFilePath = NoPath],
                   data |-> cleaned]
            /\ files' = PoolFiles(cleaned)
    /\ TtsPoolUnchangedOthers

\* writeFileSync, readFileSync, send, then the cleanup after successful
\* sending: one run between two awaits.
TtsPoolSend(r) ==
    LET q == ttsPool.req[r]
        path == q.tempFilePath
        written == [ttsPool.data EXCEPT ![path] = AudioOf(q.text)]
        audioBuffer == written[path]
        cleaned == PoolUnlink(written, path) IN
    /\ q.pc = "arrayBuffer"
    /\ ttsPool' = [req |-> [PoolMove(r, "done",
                               <<[status |-> 200, body |-> [audio |-> audioBuffer]]>>)
                            EXCEPT ![r].tempFilePath = NoPath],
                   data |-> cleaned]
    /\ files' = PoolFiles(cleaned)
    /\ TtsPoolUnchangedOthers

NextTtsPool ==
    \E r \in TtsRequests :
        \/ TtsPoolEntry(r) \/ TtsPoolStartSynthesis(r)
        \/ TtsPoolSynthesisFailed(r) \/ TtsPoolSynthesisOk(r)
        \/ TtsPoolFileFailed(r) \/ TtsPoolSend(r)

SpecTtsPool == InitTtsPool /\ [][NextTtsPool]_vars

----------------------------------------------------------------------------
(* The client page: addAudioElement (src/app/page.tsx) and                 *)
(* onRecordingComplete / handleTextToSpeech (src/src/app/page.tsx).        *)
(* `caller` tells which version of the page issued the request.            *)

PageCallers == {"addAudioElement", "onRecordingComplete"}

FetchError == "Failed to fetch"

\* The prefix setError puts before the message of an ask-stage error.
AskErrorPrefix(c) ==
    IF c = "addAudioElement" THEN "Processing failed" ELSE "Ask API failed"

\* The prefix setError puts before the message of a synthesis-stage error.
TtsErrorPrefix(c) ==
    IF c = "addAudioElement" THEN "Processing failed" ELSE "TTS API failed"

NoTranscription == "No transcription available."

NoAnswer(c) ==
    IF c = "addAudioElement" THEN <<"No answer received.">>
    ELSE <<"Could not retrieve an answer.">>

NoScratchpadShown(c) ==
    IF c = "addAudioElement" THEN <<"No scratchpad content.">>
    ELSE <<"No scratchpad available.">>

\* errorData.error || `HTTP error! status: ${status}`; a body that is not
\* JSON makes response.json() throw, and that error's message is shown.
ErrorOf(r) ==
    IF Has(r.body, "error") THEN r.body.error ELSE "Unexpected token"

PageUnchangedServer ==
    UNCHANGED <<env, files, index, calls, askRes, ttsRes, upReq, up, upRes, history, ttsPool, pagePool>>

\* useEffect on mount: setInternalApiKey('dummy_internal_key').
PageMount ==
    /\ caller = "none" /\ page.pc = "idle"
    /\ page.version = "app" /\ page.internalApiKey = ""
    /\ page' = [page EXCEPT !.internalApiKey = DummyKey]
    /\ UNCHANGED <<caller, askReq, ask, ttsReq, tts>>
    /\ PageUnchangedServer

\* addAudioElement up to `await fetch('/api/ask')`.
AddAudioElement ==
    /\ caller = "none" /\ page.pc = "idle" /\ page.version = "app"
    /\ caller' = "addAudioElement"
    /\ IF page.internalApiKey = ""
       THEN /\ page' = [page EXCEPT !.pc = "done",
                           !.error = <<"Internal API Key not configured.">>]
            /\ UNCHANGED <<askReq, ask>>
       ELSE /\ page' = [page EXCEPT !.pc = "awaitAsk", !.asking = TRUE,
                           !.error = <<>>, !.transcription = "",
                           !.answer = <<>>, !.scratchpad = <<>>,
                           !.audioUrl = <<>>]
            /\ askReq' = [method |-> "POST", key |-> page.internalApiKey,
                          form |-> "audio", question |-> ""]
            /\ ask' = [ask EXCEPT !.pc = "received"]
    /\ UNCHANGED <<ttsReq, tts>>
    /\ PageUnchangedServer

\* onRecordingComplete up to `await fetch('/api/ask')`; the key is the
\* build-time constant INTERNAL_API_KEY || ''.
OnRecordingComplete ==
    /\ caller = "none" /\ page.pc = "idle" /\ page.version = "src"
    /\ caller' = "onRecordingComplete"
    /\ page' = [page EXCEPT !.pc = "awaitAsk", !.asking = TRUE,
                   !.error = <<>>, !.transcription = "",
                   !.answer = <<>>, !.scratchpad = <<>>]
    /\ askReq' = [method |-> "POST", key |-> env.NEXT_PUBLIC_INTERNAL_API_KEY,
                  form |-> "audio", question |-> ""]
    /\ ask' = [ask EXCEPT !.pc = "received"]
    /\ UNCHANGED <<ttsReq, tts>>
    /\ PageUnchangedServer

\* The state after `finally`: both versions end with asking and ttsLoading false.
Finally(p) == [p EXCEPT !.pc = "done", !.asking = FALSE, !.ttsLoading = FALSE]

\* catch of the ask stage: setError, then finally.
PageAskFailed(msg) ==
    Finally([page EXCEPT !.error = <<AskErrorPrefix(caller), msg>>])

\* The text fields the page shows for a successful ask result.
ShowResult(p, body) ==
    [p EXCEPT !.transcription = IF body.transcription # "" THEN body.transcription
                                ELSE NoTranscription,
              !.answer = IF Truthy(body.answer) THEN body.answer ELSE NoAnswer(caller),
              !.scratchpad = IF Truthy(body.scratchpad) THEN body.scratchpad
                             ELSE NoScratchpadShown(caller)]

\* fetch('/api/ask') rejects (the connection fails).
PageAskFetchRejected ==
    /\ caller \in PageCallers /\ page.pc = "awaitAsk"
    /\ page' = PageAskFailed(FetchError)
    /\ UNCHANGED <<caller, askReq, ask, ttsReq, tts>>
    /\ PageUnchangedServer

\* Mutant: the page sends the error text of a failed ask request on to
\* /api/tts.
PageAskError_Speaks ==
    /\ caller \in PageCallers /\ page.pc = "awaitAsk"
    /\ ask.pc = "done" /\ askRes # <<>> /\ askRes[1].status # 200
    /\ page' = [page EXCEPT !.pc = "awaitTts", !.ttsLoading = TRUE, !.tts = "pending",
                            !.error = <<AskErrorPrefix(caller), ErrorOf(askRes[1])>>]
    /\ ttsReq' = [method |-> "POST", key |-> askReq.key,
                  isString |-> TRUE, text |-> <<"f">>]
    /\ tts' = [tts EXCEPT !.pc = "received"]
    /\ UNCHANGED <<caller, askReq, ask>>
    /\ PageUnchangedServer

\* The ask response arrives with an error status.
PageAskError ==
    /\ caller \in PageCallers /\ page.pc = "awaitAsk"
    /\ ask.pc = "done" /\ askRes # <<>> /\ askRes[1].status # 200
    /\ page' = PageAskFailed(ErrorOf(askRes[1]))
    /\ UNCHANGED <<caller, askReq, ask, ttsReq, tts>>
    /\ PageUnchangedServer

\* The ask response is ok: the text fields are set; with a non-empty answer
\* the page goes on to `await fetch('/api/tts')`.
PageAskOk ==
    /\ caller \in PageCallers /\ page.pc = "awaitAsk"
    /\ ask.pc = "done" /\ askRes # <<>> /\ askRes[1].status = 200
    /\ LET body == askRes[1].body
           shown == ShowResult(page, body) IN
       IF Truthy(body.answer)
       THEN /\ page' = [shown EXCEPT !.pc = "awaitTts", !.ttsLoading = TRUE,
                                     !.tts = "pending"]
            /\ ttsReq' = [method |-> "POST", key |-> askReq.key,
                          isString |-> TRUE, text |-> body.answer]
            /\ tts' = [tts EXCEPT !.pc = "received"]
       ELSE /\ page' = Finally(shown)
            /\ UNCHANGED <<ttsReq, tts>>
    /\ UNCHANGED <<caller, askReq, ask>>
    /\ PageUnchangedServer

\* Mutant: the catch also resets the text fields.
PageTtsFailed_ClearsText(msg) ==
    Finally([page EXCEPT !.error = <<TtsErrorPrefix(caller), msg>>,
                         !.tts = "failed", !.transcription = "",
                         !.answer = <<>>, !.scratchpad = <<>>])

\* catch of the synthesis stage: setError, then finally.
PageTtsFailed(msg) ==
    Finally([page EXCEPT !.error = <<TtsErrorPrefix(caller), msg>>,
                         !.tts = "failed"])

\* fetch('/api/tts') rejects.
PageTtsFetchRejected ==
    /\ caller \in PageCallers /\ page.pc = "awaitTts"
    /\ page' = PageTtsFailed(FetchError)
    /\ UNCHANGED <<caller, askReq, ask, ttsReq, tts>>
    /\ PageUnchangedServer

\* The tts response arrives with an error status.
PageTtsError ==
    /\ caller \in PageCallers /\ page.pc = "awaitTts"
    /\ tts.pc = "done" /\ ttsRes # <<>> /\ ttsRes[1].status # 200
    /\ page' = PageTtsFailed(ErrorOf(ttsRes[1]))
    /\ UNCHANGED <<caller, askReq, ask, ttsReq, tts>>
    /\ PageUnchangedServer

\* The tts response is ok: the blob becomes the audio the page plays.
PageTtsOk ==
    /\ caller \in PageCallers /\ page.pc = "awaitTts"
    /\ tts.pc = "done" /\ ttsRes # <<>> /\ ttsRes[1].status = 200
    /\ page' = Finally([page EXCEPT !.audioUrl = ObjectUrl(ttsRes[1].body.audio),
                                    !.tts = "ok"])
    /\ UNCHANGED <<caller, askReq, ask, ttsReq, tts>>
    /\ PageUnchangedServer

NextPage ==
    \/ PageMount \/ AddAudioElement \/ OnRecordingComplete
    \/ PageAskFetchRejected \/ PageAskError \/ PageAskOk
    \/ PageTtsFetchRejected \/ PageTtsError \/ PageTtsOk

----------------------------------------------------------------------------
(* The client page with recordings that overlap: the recorder is never     *)
(* disabled, so a recording can complete while the request of an earlier   *)
(* one is in flight.  Every invocation of the callback writes the same     *)
(* React state.  What the server answers is the input of each step.        *)

\* What the ask route answers for recording r.
PoolResult(r) ==
    [transcription |-> <<"transcription", r>>, answer |-> <<"answer", r>>,
     scratchpad |-> <<"scratchpad", r>>]

\* The message of an error response to a request of recording r.
PoolError(r) == <<"error", r>>

PoolCaller ==
    IF pagePool.version = "app" THEN "addAudioElement" ELSE "onRecordingComplete"

\* The page is mounted with its key set; no recording has completed.
InitPagePool ==
    /\ env = FullEnv
    /\ caller = "recordings"
    /\ files = {}
    /\ index = OldIndex
    /\ calls = <<>>
    /\ askReq = NoReq /\ ask = AskIdle /\ askRes = <<>>
    /\ ttsReq = NoReq /\ tts = TtsIdle /\ ttsRes = <<>>
    /\ upReq = NoReq /\ up = UpIdle /\ upRes = <<>>
    /\ page = PageIdle("src")
    /\ history = <<>>
    /\ ttsPool = TtsPoolIdle
    /\ pagePool \in {PagePoolMounted(v) : v \in {"app", "src"}}

PagePoolUnchangedOthers ==
    UNCHANGED <<env, caller, files, index, calls, askReq, ask, askRes,
                ttsReq, tts, ttsRes, upReq, up, upRes, page, history, ttsPool>>

\* The invocation of recording r moves to pc, the page shows `shown`.
PagePoolMove(r, pc, shown) ==
    /\ pagePool' = [pagePool EXCEPT !.inv[r] = pc, !.shown = shown]
    /\ PagePoolUnchangedOthers

\* addAudioElement / onRecordingComplete up to `await fetch('/api/ask')`:
\* the fields are reset; only addAudioElement resets the audio.
PoolRecordingComplete(r) ==
    /\ caller = "recordings" /\ pagePool.inv[r] = "idle"
    /\ LET reset == [pagePool.shown EXCEPT
                        !.asking = TRUE, !.error = <<>>, !.transcription = <<>>,
                        !.answer = <<>>, !.scratchpad = <<>>,
                        !.audioUrl = IF pagePool.version = "app" THEN <<>> ELSE @] IN
       /\ pagePool' = [pagePool EXCEPT
                          !.inv[r] = "awaitAsk", !.shown = reset,
                          !.overlap = @ \/ \E o \in Recordings :
                                            pagePool.inv[o] \in {"awaitAsk", "awaitTts"}]
       /\ PagePoolUnchangedOthers

\* finally of addAudioElement: setAsking(false); setTtsLoading(false).
\* finally of onRecordingComplete: setAsking(false).
PoolFinally(shown) ==
    [shown EXCEPT !.asking = FALSE,
                  !.ttsLoading = IF pagePool.version = "app" THEN FALSE ELSE @]

\* The ask request of recording r fails: catch, then finally.
PoolAskError(r) ==
    /\ caller = "recordings" /\ pagePool.inv[r] = "awaitAsk"
    /\ PagePoolMove(r, "done",
          PoolFinally([pagePool.shown EXCEPT
                          !.error = <<AskErrorPrefix(PoolCaller)>> \o PoolError(r)]))

\* The ask response of recording r is ok: the text fields are set and the
\* answer is sent on to /api/tts; handleTextToSpeech also clears the error.
PoolAskOk(r) ==
    /\ caller = "recordings" /\ pagePool.inv[r] = "awaitAsk"
    /\ PagePoolMove(r, "awaitTts",
          [pagePool.shown EXCEPT
              !.transcription = PoolResult(r).transcription,
              !.answer = PoolResult(r).answer,
              !.scratchpad = PoolResult(r).scratchpad, !.ttsLoading = TRUE,
              !.error = IF pagePool.version = "app" THEN @ ELSE <<>>])

\* The tts request of recording r fails: catch, then finally (in
\* handleTextToSpeech setTtsLoading(false), then setAsking(false)).
PoolTtsError(r) ==
    /\ caller = "recordings" /\ pagePool.inv[r] = "awaitTts"
    /\ PagePoolMove(r, "done",
          [pagePool.shown EXCEPT
              !.error = <<TtsErrorPrefix(PoolCaller)>> \o PoolError(r),
              !.asking = FALSE, !.ttsLoading = FALSE])

\* The tts response of recording r is ok: its blob becomes the audio.
PoolTtsOk(r) ==
    /\ caller = "recordings" /\ pagePool.inv[r] = "awaitTts"
    /\ PagePoolMove(r, "done",
          [pagePool.shown EXCEPT
              !.audioUrl = ObjectUrl(AudioOf(PoolResult(r).answer)),
              !.asking = FALSE, !.ttsLoading = FALSE])

NextPagePool ==
    \E r \in Recordings :
        \/ PoolRecordingComplete(r)
        \/ PoolAskError(r) \/ PoolAskOk(r)
        \/ PoolTtsError(r) \/ PoolTtsOk(r)

SpecPagePool == InitPagePool /\ [][NextPagePool]_vars

----------------------------------------------------------------------------
(* uploadHandler, src/upload.ts *)

batchSize == 100

\* The largest number of chunks a document is split into.
MaxChunks == 201

\* Chunk counts around the batch boundaries.
ChunkCounts ==
    {0, 1, 2, batchSize - 1, batchSize, batchSize + 1, 2 * batchSize, MaxChunks}

FileNames == {"a.pdf", "old.pdf"}

\* Date.now(): a later request reads a later time.
Now == IF history = <<>> THEN "now" ELSE "later"

\* multer.diskStorage: docsDir / (Date.now() + '-' + originalname with
\* white space replaced by '_'); the names used here hold no white space.
StoredPath(name) == <<"docs", Now, "-", name>>

\* Mutant: the id carries the time of the request, as the stored file name
\* does.
ChunkId_Timestamped(fileName, i) == <<fileName, Now, "-chunk-", i>>

\* `${fileName}-chunk-${i}`
ChunkId(fileName, i) == <<fileName, "-chunk-", i>>

\* chunk.pageContent of the i-th chunk of the document.
ChunkText(fileName, i) == <<"text", fileName, i>>

\* The record pushed to `vectors` for chunk i.
VectorOf(fileName, i) ==
    [id |-> ChunkId(fileName, i), text |-> ChunkText(fileName, i)]

UpRespond(r) == upRes' = Append(upRes, r)

UpUnchangedOthers ==
    UNCHANGED <<env, caller, askReq, ask, askRes, ttsReq, tts, ttsRes, upReq, page,
                history,
                ttsPool, pagePool>>

UploadForms == {"pdf", "noFile", "notPdf", "tooLarge"}

\* A caller posts to /api/upload.
DirectUpload ==
    /\ caller = "none"
    /\ \E m \in {"POST", "GET"}, k \in Keys, f \in UploadForms, n \in FileNames :
          upReq' = [method |-> m, key |-> k, form |-> f, originalname |-> n]
    /\ caller' = "upload"
    /\ up' = [up EXCEPT !.pc = "received"]
    /\ UNCHANGED <<env, files, index, calls, askReq, ask, askRes,
                   ttsReq, tts, ttsRes, upRes, page, history, ttsPool, pagePool>>

\* withApiKeyAuth(uploadHandler) up to the first await (runMiddleware).
UpEntry ==
    /\ up.pc = "received"
    /\ IF ~ Authorized(upReq.key, env.INTERNAL_API_KEY)
       THEN UpRespond(Unauthorized) /\ up' = [up EXCEPT !.pc = "done"]
       ELSE IF upReq.method # "POST"
       THEN UpRespond(MethodNotAllowed) /\ up' = [up EXCEPT !.pc = "done"]
       ELSE UNCHANGED upRes /\ up' = [up EXCEPT !.pc = "multer"]
    /\ UNCHANGED <<files, index, calls>>
    /\ UpUnchangedOthers

\* The outer catch: cleanup, then the response chosen by the error.
UpOuterCatch(path, err) ==
    /\ files' = Unlink(files, path)
    /\ UpRespond(IF err = "LIMIT_FILE_SIZE"
                 THEN Json(400, [error |-> "File size limit exceeded."])
                 ELSE IF err = "Only PDF files are allowed!"
                 THEN Json(400, [error |-> "Invalid file type. Only PDFs are allowed."])
                 ELSE Json(500, [error |-> "Failed to process the uploaded file.",
                                 details |-> ErrMsg]))
    /\ up' = [up EXCEPT !.pc = "done"]

\* runMiddleware rejects: the size limit or the fileFilter.
UpMulterRejected ==
    /\ up.pc = "multer" /\ upReq.form \in {"tooLarge", "notPdf"}
    /\ UpOuterCatch(up.filePath, IF upReq.form = "tooLarge" THEN "LIMIT_FILE_SIZE"
                                 ELSE "Only PDF files are allowed!")
    /\ UNCHANGED <<index, calls>>
    /\ UpUnchangedOthers

\* if (!uploadedFile) return 400
UpNoFile ==
    /\ up.pc = "multer" /\ upReq.form = "noFile"
    /\ UpRespond(Json(400, [error |-> "No file uploaded."]))
    /\ up' = [up EXCEPT !.pc = "done"]
    /\ UNCHANGED <<files, index, calls>>
    /\ UpUnchangedOthers

\* The file is stored, filePath is set, and an API key is missing.
UpMissingConfig ==
    /\ up.pc = "multer" /\ upReq.form = "pdf" /\ ~ env.apiKeys
    /\ files' = files \cup {StoredPath(upReq.originalname)}
    /\ UpRespond(Json(500, [error |-> "Server configuration error: Missing API keys."]))
    /\ up' = [up EXCEPT !.pc = "done", !.filePath = StoredPath(upReq.originalname),
                        !.fileName = upReq.originalname]
    /\ UNCHANGED <<index, calls>>
    /\ UpUnchangedOthers

\* The file is stored and loader.load() is called.
UpStartLoad ==
    /\ up.pc = "multer" /\ upReq.form = "pdf" /\ env.apiKeys
    /\ files' = files \cup {StoredPath(upReq.originalname)}
    /\ calls' = Append(calls, [cap |-> "extractDocumentText", outcome |-> "pending"])
    /\ up' = [up EXCEPT !.pc = "load", !.filePath = StoredPath(upReq.originalname),
                        !.fileName = upReq.originalname]
    /\ UNCHANGED <<index, upRes>>
    /\ UpUnchangedOthers

\* catch (pdfLoadError)
UpLoadFailed ==
    /\ up.pc = "load"
    /\ UpRespond(Json(500, [error |-> "Could not process PDF", details |-> ErrMsg]))
    /\ up' = [up EXCEPT !.pc = "done"]
    /\ calls' = Settled("rejected")
    /\ UNCHANGED <<files, index>>
    /\ UpUnchangedOthers

\* if (!docs || docs.length === 0) return 500
UpLoadEmpty ==
    /\ up.pc = "load"
    /\ UpRespond(Json(500, [error |-> "Could not extract content from PDF"]))
    /\ up' = [up EXCEPT !.pc = "done"]
    /\ calls' = Settled("resolved")
    /\ UNCHANGED <<files, index>>
    /\ UpUnchangedOthers

\* docs has content: textSplitter.splitDocuments(docs) is awaited.
UpLoadOk ==
    /\ up.pc = "load"
    /\ up' = [up EXCEPT !.pc = "split"]
    /\ calls' = Settled("resolved")
    /\ UNCHANGED <<files, index, upRes>>
    /\ UpUnchangedOthers

\* splitDocuments rejects: the error reaches the outer catch.
UpSplitRejected ==
    /\ up.pc = "split"
    /\ UpOuterCatch(up.filePath, "Error")
    /\ UNCHANGED <<index, calls>>
    /\ UpUnchangedOthers

UploadSuccess(fileName, n) ==
    Json(200, [message |-> <<"File", fileName, "uploaded and processed successfully.">>,
               chunksEmbedded |-> n])

EmbedCall(i) == [cap |-> "embedChunk", outcome |-> "pending", i |-> i]

\* Mutant: the slice takes one record more, so that consecutive batches share
\* a record.
Batch_Overlapping(vectors, i) ==
    SubSeq(vectors, i + 1, IF i + batchSize + 1 < Len(vectors) THEN i + batchSize + 1
                           ELSE Len(vectors))

\* vectors.slice(i, i + batchSize)
Batch(vectors, i) ==
    SubSeq(vectors, i + 1, IF i + batchSize < Len(vectors) THEN i + batchSize
                           ELSE Len(vectors))

UpsertCall(vectors, i) ==
    [cap |-> "upsert", outcome |-> "pending", first |-> i,
     size |-> Len(Batch(vectors, i))]

\* The splitter is a function of the document: a document posted again
\* splits into the chunks it split into before.
SplitCounts == IF history = <<>> THEN ChunkCounts ELSE {history[1].chunks}

\* The chunks are there; with none, the loops are skipped and the success
\* response is sent, otherwise chunk 0 is embedded.
UpSplitOk ==
    /\ up.pc = "split"
    /\ \E n \in SplitCounts :
         IF n = 0
         THEN /\ UpRespond(UploadSuccess(up.fileName, 0))
              /\ up' = [up EXCEPT !.pc = "done", !.chunks = 0]
              /\ UNCHANGED calls
         ELSE /\ calls' = Append(calls, EmbedCall(0))
              /\ up' = [up EXCEPT !.pc = "embed", !.chunks = n, !.i = 0]
              /\ UNCHANGED upRes
    /\ UNCHANGED <<files, index>>
    /\ UpUnchangedOthers

EmbeddingError ==
    Json(500, [error |-> "Failed to generate embeddings.", details |-> ErrMsg])

\* Mutant: the catch sits inside the loop, pushes a record without a
\* usable vector and goes on.
UpEmbedFailed_GoesOn ==
    /\ up.pc = "embed"
    /\ LET vs == Append(up.vectors, VectorOf(up.fileName, up.i)) IN
       IF up.i + 1 < up.chunks
       THEN /\ calls' = Append(Settled("rejected"), EmbedCall(up.i + 1))
            /\ up' = [up EXCEPT !.vectors = vs, !.i = up.i + 1]
       ELSE /\ calls' = Append(Settled("rejected"), UpsertCall(vs, 0))
            /\ up' = [up EXCEPT !.pc = "upsert", !.vectors = vs, !.i = 0]
    /\ UNCHANGED <<files, index, upRes>>
    /\ UpUnchangedOthers

\* catch (embeddingError): embedQuery rejected for chunk i.
UpEmbedFailed ==
    /\ up.pc = "embed"
    /\ calls' = Settled("rejected")
    /\ UpRespond(EmbeddingError)
    /\ up' = [up EXCEPT !.pc = "done"]
    /\ UNCHANGED <<files, index>>
    /\ UpUnchangedOthers

\* The embedding of chunk i resolves: push, then the next chunk, or the
\* first upsert after the last chunk.
UpEmbedOk ==
    /\ up.pc = "embed"
    /\ LET vs == Append(up.vectors, VectorOf(up.fileName, up.i)) IN
       IF up.i + 1 < up.chunks
       THEN /\ calls' = Append(Settled("resolved"), EmbedCall(up.i + 1))
            /\ up' = [up EXCEPT !.vectors = vs, !.i = up.i + 1]
       ELSE /\ calls' = Append(Settled("resolved"), UpsertCall(vs, 0))
            /\ up' = [up EXCEPT !.pc = "upsert", !.vectors = vs, !.i = 0]
    /\ UNCHANGED <<files, index, upRes>>
    /\ UpUnchangedOthers

IndexWriteError ==
    Json(500, [error |-> "Failed to save embeddings to database.", details |-> ErrMsg])

\* Mutant: the catch is inside the loop, which goes on with the next batch.
UpUpsertFailed_NextBatch ==
    /\ up.pc = "upsert"
    /\ IF up.i + batchSize < Len(up.vectors)
       THEN /\ calls' = Append(Settled("rejected"),
                              UpsertCall(up.vectors, up.i + batchSize))
            /\ up' = [up EXCEPT !.i = up.i + batchSize]
            /\ UNCHANGED upRes
       ELSE /\ UpRespond(IndexWriteError)
            /\ up' = [up EXCEPT !.pc = "done"]
            /\ calls' = Settled("rejected")
    /\ UNCHANGED <<files, index>>
    /\ UpUnchangedOthers

\* catch (pineconeError): index.upsert rejected for the batch at i.
UpUpsertFailed ==
    /\ up.pc = "upsert"
    /\ calls' = Settled("rejected")
    /\ UpRespond(IndexWriteError)
    /\ up' = [up EXCEPT !.pc = "done"]
    /\ UNCHANGED <<files, index>>
    /\ UpUnchangedOthers

\* The index after an upsert of `batch`: records are keyed by id.
Upserted(idx, batch) ==
    [id \in DOMAIN idx \cup {batch[k].id : k \in DOMAIN batch} |->
        IF \E k \in DOMAIN batch : batch[k].id = id
        THEN batch[CHOOSE k \in DOMAIN batch : batch[k].id = id].text
        ELSE idx[id]]

\* The upsert of the batch at i resolves: the next batch, or the success
\* response after the last one.
UpUpsertOk ==
    /\ up.pc = "upsert"
    /\ index' = Upserted(index, Batch(up.vectors, up.i))
    /\ IF up.i + batchSize < Len(up.vectors)
       THEN /\ calls' = Append(Settled("resolved"),
                              UpsertCall(up.vectors, up.i + batchSize))
            /\ up' = [up EXCEPT !.i = up.i + batchSize]
            /\ UNCHANGED upRes
       ELSE /\ UpRespond(UploadSuccess(up.fileName, Len(up.vectors)))
            /\ up' = [up EXCEPT !.pc = "done"]
            /\ calls' = Settled("resolved")
    /\ UNCHANGED files
    /\ UpUnchangedOthers

\* The caller whose upload succeeded posts the same document again, in a new
\* request: the handler starts afresh, the disk and the index are as the
\* first request left them.
UploadAgain ==
    /\ caller = "upload" /\ up.pc = "done" /\ history = <<>>
    /\ upRes # <<>> /\ upRes[1].status = 200
    /\ history' = <<[index |-> index, chunks |-> up.chunks,
                     ids |-> {up.vectors[k].id : k \in DOMAIN up.vectors}]>>
    /\ up' = [UpIdle EXCEPT !.pc = "received"]
    /\ upRes' = <<>>
    /\ calls' = <<>>
    /\ UNCHANGED <<env, caller, files, index, askReq, ask, askRes,
                   ttsReq, tts, ttsRes, upReq, page, ttsPool, pagePool>>

NextUpload ==
    \/ DirectUpload \/ UpEntry \/ UpMulterRejected \/ UpNoFile
    \/ UpMissingConfig \/ UpStartLoad \/ UpLoadFailed \/ UpLoadEmpty
    \/ UpLoadOk \/ UpSplitRejected \/ UpSplitOk
    \/ UpEmbedFailed \/ UpEmbedOk \/ UpUpsertFailed \/ UpUpsertOk

----------------------------------------------------------------------------
(* The system: one request per behaviour, issued by the page or by any     *)
(* other HTTP client, and the handlers that serve it.                      *)

Next == NextAsk \/ NextTts \/ NextPage \/ NextUpload

Spec == Init /\ [][Next]_vars

\* An ask request whose generation call is awaited: audio posted with the
\* right key, transcribed, and two texts retrieved.
AwaitingGeneration ==
    /\ env = [INTERNAL_API_KEY |-> DummyKey, NEXT_PUBLIC_INTERNAL_API_KEY |-> DummyKey,
              apiKeys |-> TRUE, ELEVENLABS_API_KEY |-> FALSE]
    /\ caller = "direct"
    /\ files = {}
    /\ index = OldIndex
    /\ calls = << [cap |-> "transcribe", outcome |-> "resolved", file |-> AudioPath],
                  [cap |-> "embedQuery", outcome |-> "resolved", text |-> "what is wacc"],
                  [cap |-> "query", outcome |-> "resolved", topK |-> 5],
                  [cap |-> "generate", outcome |-> "pending",
                   context |-> <<"m2", Separator, "m1">>,
                   question |-> "what is wacc"] >>
    /\ askReq = [method |-> "POST", key |-> DummyKey, form |-> "audio", question |-> ""]
    /\ ask = [pc |-> "generate", audioFilePath |-> NoPath,
              transcription |-> "what is wacc", queryText |-> "what is wacc",
              matches |-> <<"m2", "m1">>, context |-> <<"m2", Separator, "m1">>,
              responseContent |-> <<>>]
    /\ askRes = <<>>
    /\ ttsReq = NoReq /\ tts = TtsIdle /\ ttsRes = <<>>
    /\ upReq = NoReq /\ up = UpIdle /\ upRes = <<>>
    /\ page = PageIdle("src")
    /\ history = <<>>
    /\ ttsPool = TtsPoolIdle
    /\ pagePool = PagePoolIdle

\* The parse stage on its own: from the awaited generation call, the call
\* resolves with any bounded raw text and the handler parses it.
SpecParser == AwaitingGeneration /\ [][AskGenerationOkAny]_vars

\* The system when the file system may also refuse to delete the temporary
\* audio file after it was sent.
SpecUnlinkFails == Init /\ [][Next \/ TtsUnlinkFailed]_vars

\* The system when a document that was ingested is posted a second time.
SpecAgain == Init /\ [][Next \/ UploadAgain]_vars

----------------------------------------------------------------------------
(* Properties of the ask pipeline *)

AskResponse == askRes[1]

\* C1: if the transcription call fails, the ask request ends with the
\* transcription error response, no query embedding, index query or
\* generation call is made for it, and no answer is returned.
C1_TranscriptionFailureIsFatal ==
    Rejected("transcribe") # {} =>
        /\ ask.pc = "done"
        /\ askRes = <<TranscriptionError>>
        /\ Count("embedQuery") = 0 /\ Count("query") = 0 /\ Count("generate") = 0
        /\ ~ Has(AskResponse.body, "answer")

C1_Witness ==
    /\ Rejected("transcribe") # {} /\ ask.pc = "done"
    /\ caller = "direct" /\ askReq.question # ""

GenerateCalls == {i \in DOMAIN calls : calls[i].cap = "generate"}

\* C2: if the query-embedding call or the index-query call fails, the
\* context is the 'context unavailable' marker, the generation call is made
\* once with that context and the query text, and the request's outcome is
\* the answer or the generation error, never a retrieval error.
C2_RetrievalNeverFails ==
    (Rejected("embedQuery") # {} \/ Rejected("query") # {}) =>
        /\ ask.context = ContextUnavailable
        /\ Cardinality(GenerateCalls) = 1
        /\ \A i \in GenerateCalls :
              /\ calls[i].context = ContextUnavailable
              /\ calls[i].question = ask.queryText
        /\ ask.pc \in {"generate", "done"}
        /\ ask.pc = "done" =>
              /\ Len(askRes) = 1
              /\ \/ AskResponse = GenerationError
                 \/ AskResponse.status = 200 /\ Truthy(AskResponse.body.scratchpad)

C2_Witness ==
    /\ Rejected("query") # {} /\ ask.pc = "done" /\ AskResponse.status = 200

C4_FatalErrorKeepsPartialFields ==
    (Rejected("generate") # {} /\ ask.pc = "done") =>
        /\ Has(AskResponse.body, "error")
        /\ Has(AskResponse.body, "transcription")

\* C5: a failed generation call ends the request with the generation
\* error, no answer or scratchpad is returned, and the page never invokes
\* speech synthesis for that request.
C5_GenerationFailureIsFatal ==
    Rejected("generate") # {} =>
        /\ ask.pc = "done"
        /\ askRes = <<GenerationError>>
        /\ ~ Has(AskResponse.body, "answer")
        /\ ~ Has(AskResponse.body, "scratchpad")
        /\ ttsReq = NoReq /\ tts.pc = "idle" /\ Count("synthesize") = 0
        /\ page.tts = "notCalled"
        /\ (caller \in PageCallers /\ page.pc = "done") =>
              /\ page.error[1] = AskErrorPrefix(caller)
              /\ page.answer = <<>> /\ page.scratchpad = <<>>

C5_Witness ==
    /\ Rejected("generate") # {} /\ caller \in PageCallers /\ page.pc = "done"
    /\ page.error = <<AskErrorPrefix(caller), GenerationError.body.error>>

\* C6: when a text question is supplied in the ask request, the
\* transcription call is skipped, a request without audio is accepted, and
\* a transcription failure cannot fail the request.
C6_TextQuestionSkipsTranscription ==
    (askReq # NoReq /\ askReq.question # "" /\ askReq.method = "POST"
       /\ askReq.form \in {"audio", "noAudio"}
       /\ Authorized(askReq.key, env.INTERNAL_API_KEY)) =>
        /\ Count("transcribe") = 0
        /\ ask.pc = "done" =>
              /\ AskResponse # TranscriptionError
              /\ AskResponse # Json(400, [error |-> "No audio file uploaded."])

\* C7: on every exit path of the ask handler after the uploaded audio was
\* stored, the temporary audio file no longer exists when the request has
\* finished.
C7_AskReleasesAudioFile ==
    ask.pc = "done" => AudioPath \notin files

----------------------------------------------------------------------------
(* Properties of ingestion *)

CallsOf(cap) == {i \in DOMAIN calls : calls[i].cap = cap}

\* C9: within one request no capability is attempted twice for the same
\* stage: at most one transcription, query-embedding, index-query and
\* generation call, at most one embedding call per chunk and one upsert
\* call per batch, and no call of a capability follows a rejected call of
\* that capability.
C9_AtMostOneAttempt ==
    /\ Count("transcribe") <= 1 /\ Count("embedQuery") <= 1
    /\ Count("query") <= 1 /\ Count("generate") <= 1
    /\ Count("synthesize") <= 1 /\ Count("extractDocumentText") <= 1
    /\ Cardinality({calls[i].i : i \in CallsOf("embedChunk")}) = Count("embedChunk")
    /\ Cardinality({calls[i].first : i \in CallsOf("upsert")}) = Count("upsert")
    /\ \A i \in DOMAIN calls :
          calls[i].outcome = "rejected" =>
             \A j \in (i + 1)..Len(calls) : calls[j].cap # calls[i].cap

C9_Witness ==
    /\ up.pc = "done" /\ Rejected("upsert") # {} /\ Count("upsert") = 3
    /\ Count("embedChunk") = MaxChunks

\* C10: if the embedding call fails for any chunk, the ingestion ends with
\* the embedding error, no upsert call is made and the index is as it was
\* before the ingestion.
C10_EmbeddingFailureAborts ==
    Rejected("embedChunk") # {} =>
        /\ up.pc = "done"
        /\ upRes = <<EmbeddingError>>
        /\ Count("upsert") = 0
        /\ index = OldIndex

C10_Witness ==
    /\ \E i \in Rejected("embedChunk") :
          calls[i].i = up.chunks - 1 /\ up.chunks > batchSize
    /\ up.pc = "done"

UploadResponse == upRes[1]

\* The upsert calls that resolved: the batches written to the index.
BatchesWritten ==
    Cardinality({i \in CallsOf("upsert") : calls[i].outcome = "resolved"})

\* C11: if an upsert call fails at batch j, the index-write error that is
\* reported carries the count of the batches written before the failure.
C11_IndexWriteErrorCarriesCount ==
    (Rejected("upsert") # {} /\ up.pc = "done") =>
        /\ UploadResponse.status # 200
        /\ \E f \in DOMAIN UploadResponse.body \ {"error", "details"} :
              UploadResponse.body[f] = BatchesWritten

ExtractionErrors == {"Could not process PDF", "Could not extract content from PDF"}

\* The request ended because extraction failed or yielded no content.
ExtractionFailed ==
    /\ up.pc = "done" /\ Count("extractDocumentText") = 1 /\ upRes # <<>>
    /\ Has(UploadResponse.body, "error")
    /\ UploadResponse.body.error \in ExtractionErrors

\* C12: if text extraction fails or yields no content, the ingestion ends
\* with an error, nothing is chunked, embedded or upserted, the index is
\* unchanged and nothing written for this document remains.
C12_ExtractionFailureLeavesNothing ==
    ExtractionFailed =>
        /\ UploadResponse.status # 200
        /\ Count("embedChunk") = 0 /\ Count("upsert") = 0
        /\ up.vectors = <<>>
        /\ index = OldIndex
        /\ up.filePath \notin files

UploadSucceeded ==
    up.pc = "done" /\ upRes # <<>> /\ UploadResponse.status = 200

\* The upsert calls whose batch holds the record of chunk i.
UpsertsOf(i) ==
    {k \in CallsOf("upsert") : calls[k].first <= i /\ i < calls[k].first + calls[k].size}

\* C14: a successful ingestion of a document split into n chunks upserts
\* exactly n records: record i has the id derived from (source name, i) and
\* the text of chunk i, the ids are pairwise distinct, each record is
\* upserted exactly once across the batches, and the count reported is n.
C14_SuccessfulIngestionUpsertsEachChunkOnce ==
    UploadSucceeded =>
        LET n == up.chunks
            f == up.fileName IN
        /\ Len(up.vectors) = n
        /\ UploadResponse.body.chunksEmbedded = n
        /\ \A i \in 0..(n - 1) :
              /\ up.vectors[i + 1].id = <<f, "-chunk-", i>>
              /\ up.vectors[i + 1].text = ChunkText(f, i)
              /\ <<f, "-chunk-", i>> \in DOMAIN index
              /\ index[<<f, "-chunk-", i>>] = ChunkText(f, i)
              /\ Cardinality(UpsertsOf(i)) = 1
        /\ Cardinality({up.vectors[k].id : k \in DOMAIN up.vectors}) = n
        /\ \A k \in CallsOf("upsert") : calls[k].outcome = "resolved"
        /\ DOMAIN index = DOMAIN OldIndex \cup {<<f, "-chunk-", i>> : i \in 0..(n - 1)}

C14_Witness ==
    UploadSucceeded /\ up.chunks = MaxChunks /\ Count("upsert") = 3

\* C13: ingestion is idempotent at the level of records: ingesting the same
\* document twice sends the same set of record ids, and the contents of the
\* index after the second ingestion equal those after the first.
C13_IngestionIsIdempotent ==
    (history # <<>> /\ UploadSucceeded) =>
        /\ {up.vectors[k].id : k \in DOMAIN up.vectors} = history[1].ids
        /\ DOMAIN index = DOMAIN history[1].index
        /\ index = history[1].index

C13_Witness ==
    /\ history # <<>> /\ UploadSucceeded
    /\ up.chunks = batchSize + 1 /\ Cardinality(history[1].ids) = batchSize + 1
    /\ Count("upsert") = 2

----------------------------------------------------------------------------
(* Properties of context assembly *)

QueryResolved ==
    \E i \in CallsOf("query") : calls[i].outcome = "resolved"

\* The positions of the matches that carry a text.
WithText(matches) == {k \in DOMAIN matches : matches[k] # ""}

\* ctx is the texts of `matches`, in their order, with a separator between
\* each two: text j of ctx is the text of the j-th match that carries one.
IsJoinOf(ctx, matches) ==
    LET n == Cardinality(WithText(matches)) IN
    /\ Len(ctx) = 2 * n - 1
    /\ \A j \in 1..(n - 1) : ctx[2 * j] = Separator
    /\ \E pos \in [1..n -> WithText(matches)] :
          /\ \A j \in 1..n : ctx[2 * j - 1] = matches[pos[j]]
          /\ \A j, k \in 1..n : j < k => pos[j] < pos[k]

\* C20: when the index query succeeds, the context handed to generation is
\* the matched texts in the order the index returned them, joined with the
\* separator, none dropped or reordered; with no matched text it is the
\* 'no relevant context found' marker, which is not the 'unavailable' one.
C20_ContextIsMatchedTextsInOrder ==
    QueryResolved =>
        /\ GenerateCalls # {}
        /\ \A i \in GenerateCalls : calls[i].context = ask.context
        /\ IF WithText(ask.matches) = {}
           THEN ask.context = NoContext /\ ask.context # ContextUnavailable
           ELSE IsJoinOf(ask.context, ask.matches)

C20_Witness ==
    /\ QueryResolved /\ ask.matches = <<"m3", "", "m1">>
    /\ ask.context = <<"m3", Separator, "m1">>

----------------------------------------------------------------------------
(* Properties of the response parser, checked under SpecParser *)

RawText == ask.responseContent

\* The generation call resolved with a non-empty raw text, which was parsed.
Parsed == ask.pc = "done" /\ RawText # <<>>

IsBlock(s, i, j) == i < j /\ s[i] = OpenTag /\ s[j] = CloseTag

\* s[i..j] is the first reasoning block of s: no open tag comes before it
\* and no close tag lies between its delimiters.
IsFirstBlock(s, i, j) ==
    /\ IsBlock(s, i, j)
    /\ \A k \in 1..(i - 1) : s[k] # OpenTag
    /\ \A k \in (i + 1)..(j - 1) : s[k] # CloseTag

HasBlock(s) == \E i, j \in DOMAIN s : IsBlock(s, i, j)

\* The marker "###" starts at position p of s.
IsMarker(s, p) ==
    p + 2 <= Len(s) /\ s[p] = "#" /\ s[p + 1] = "#" /\ s[p + 2] = "#"

HasMarker(s) == \E p \in DOMAIN s : IsMarker(s, p)

AllSpace(s) == \A k \in DOMAIN s : IsSpace(s[k])

\* t is s without its leading and trailing white space.
IsTrimOf(t, s) ==
    /\ t # <<>> => ~ IsSpace(t[1]) /\ ~ IsSpace(t[Len(t)])
    /\ \E a \in 0..Len(s) :
          /\ a + Len(t) <= Len(s)
          /\ SubSeq(s, a + 1, a + Len(t)) = t
          /\ AllSpace(SubSeq(s, 1, a))
          /\ AllSpace(SubSeq(s, a + Len(t) + 1, Len(s)))

\* C15: the scratchpad field is the first reasoning block of the raw text,
\* delimiters included, when there is one, and the fixed placeholder
\* otherwise; "<scratchpad>think</scratchpad>###  final " gives
\* "<scratchpad>think</scratchpad>".
C15_ScratchpadIsFirstBlockOrPlaceholder ==
    Parsed =>
        /\ AskResponse.status = 200
        /\ IF HasBlock(RawText)
           THEN \E i, j \in DOMAIN RawText :
                   /\ IsFirstBlock(RawText, i, j)
                   /\ AskResponse.body.scratchpad = SubSeq(RawText, i, j)
           ELSE AskResponse.body.scratchpad = NoScratchpad
        /\ RawText = ExampleText =>
              AskResponse.body.scratchpad =
                  <<OpenTag, "t", "h", "i", "n", "k", CloseTag>>

C15_Witness ==
    /\ Parsed /\ RawText = ExampleText
    /\ AskResponse.body.scratchpad = <<OpenTag, "t", "h", "i", "n", "k", CloseTag>>

\* C16: for every raw text that holds the marker "###", the answer is the
\* trimmed text after the (first) marker, all of it, also when that text
\* holds further markers or the marker lies inside the reasoning block.
C16_AnswerIsAllTextAfterMarker ==
    (Parsed /\ HasMarker(RawText)) =>
        \E p \in DOMAIN RawText :
            /\ IsMarker(RawText, p)
            /\ \A q \in 1..(p - 1) : ~ IsMarker(RawText, q)
            /\ IsTrimOf(AskResponse.body.answer, SubSeq(RawText, p + 3, Len(RawText)))

\* C17: for every raw text that holds no marker, the answer is the raw text
\* with the reasoning block removed, trimmed; when it holds neither marker
\* nor tags the answer is the whole trimmed text and the scratchpad is the
\* placeholder.
C17_FallbackRemovesBlockAndTrims ==
    (Parsed /\ ~ HasMarker(RawText)) =>
        IF HasBlock(RawText)
        THEN \E i, j \in DOMAIN RawText :
                /\ IsFirstBlock(RawText, i, j)
                /\ IsTrimOf(AskResponse.body.answer,
                            SubSeq(RawText, 1, i - 1)
                                \o SubSeq(RawText, j + 1, Len(RawText)))
        ELSE /\ IsTrimOf(AskResponse.body.answer, RawText)
             /\ AskResponse.body.scratchpad = NoScratchpad

C17_Witness ==
    /\ Parsed /\ RawText = <<" ", OpenTag, "a", CloseTag, "a">>
    /\ AskResponse.body.answer = <<"a">>

\* C18: the answer field is a non-empty string for every non-empty raw
\* text, also when the text is only a reasoning block or the part after the
\* marker is blank.
C18_AnswerIsNeverEmpty ==
    Parsed => AskResponse.status = 200 /\ AskResponse.body.answer # <<>>

\* C19 as stated: every raw text a resolved generation call returns is
\* parsed, and the response holds both a scratchpad and an answer.
C19_EveryOutputIsParsed ==
    (ask.pc = "done" /\ Rejected("generate") = {}) =>
        /\ AskResponse.status = 200
        /\ Has(AskResponse.body, "scratchpad") /\ Has(AskResponse.body, "answer")

\* C19, amended: every non-empty raw text a resolved generation call
\* returns is parsed, and the response holds both a scratchpad and an
\* answer; an empty content is answered with the generation error.
C19_EveryNonEmptyOutputIsParsed ==
    (ask.pc = "done" /\ Rejected("generate") = {}) =>
        IF RawText # <<>>
        THEN /\ Len(askRes) = 1 /\ AskResponse.status = 200
             /\ Has(AskResponse.body, "scratchpad") /\ Has(AskResponse.body, "answer")
        ELSE askRes = <<GenerationError>>

C19_Witness ==
    /\ Parsed /\ Rejected("generate") = {}
    /\ RawText = <<"#", "#", "#">> /\ AskResponse.status = 200
    /\ ~ HasBlock(RawText)

----------------------------------------------------------------------------
(* Properties of the stage sequence *)

\* The stage a capability call belongs to: 1 transcription, 2 retrieval,
\* 3 generation, 5 synthesis (4, parsing, makes no call).
StageRank(cap) ==
    CASE cap = "transcribe" -> 1
      [] cap \in {"embedQuery", "query"} -> 2
      [] cap = "generate" -> 3
      [] cap = "synthesize" -> 5
      [] OTHER -> 0

ResolvedBefore(cap, i) ==
    \E k \in 1..(i - 1) : calls[k].cap = cap /\ calls[k].outcome = "resolved"

SettledBefore(cap, i) ==
    \E k \in 1..(i - 1) : calls[k].cap = cap /\ calls[k].outcome # "pending"

AskFailed == askRes # <<>> /\ askRes[1].status # 200

\* The calls of a request that goes through the ask route are made stage by
\* stage: a call starts only when every earlier one has settled, no call is
\* repeated, generation comes after transcription and retrieval, synthesis
\* after a parsed answer, and a failed request has nothing running.
StageOrder ==
    caller \in PageCallers \cup {"direct"} =>
        /\ \A i, j \in DOMAIN calls : i < j =>
              /\ StageRank(calls[i].cap) <= StageRank(calls[j].cap)
              /\ calls[i].cap # calls[j].cap
              /\ calls[i].outcome # "pending"
        /\ \A i \in DOMAIN calls :
              /\ StageRank(calls[i].cap) > 0
              /\ calls[i].cap = "embedQuery" => ResolvedBefore("transcribe", i)
              /\ calls[i].cap = "query" => ResolvedBefore("embedQuery", i)
              /\ calls[i].cap = "generate" =>
                    /\ ResolvedBefore("transcribe", i)
                    /\ SettledBefore("embedQuery", i)
                    /\ ask.context # <<>>
              /\ calls[i].cap = "synthesize" =>
                    /\ ResolvedBefore("generate", i)
                    /\ ask.pc = "done" /\ Len(askRes) = 1 /\ askRes[1].status = 200
                    /\ Truthy(askRes[1].body.answer)
                    /\ calls[i].text = askRes[1].body.answer
        /\ AskFailed =>
              /\ ask.pc = "done" /\ tts.pc = "idle"
              /\ \A i \in DOMAIN calls : calls[i].outcome # "pending"

\* Once the request has failed, no call is made and no handler moves.
NoStageAfterFailure ==
    (AskFailed \/ (ttsRes # <<>> /\ ttsRes[1].status # 200)) =>
        /\ calls' = calls /\ ask' = ask /\ tts' = tts
        /\ askRes' = askRes /\ ttsRes' = ttsRes

\* C21: every request moves through the stages only in the order
\* RECEIVED, TRANSCRIBED, RETRIEVED, GENERATED, PARSED, SYNTHESIZED, none
\* skipped, repeated or out of order: generation is never called before
\* retrieval has finished, synthesis never before an answer was parsed, and
\* once a request is FAILED no later stage runs.
C21_StagesRunInOrder == [] StageOrder /\ [][NoStageAfterFailure]_vars

C21_Witness ==
    /\ caller = "addAudioElement" /\ Len(calls) = 5
    /\ calls[5].cap = "synthesize" /\ calls[5].outcome = "resolved"
    /\ ttsRes # <<>> /\ ttsRes[1].status = 200

----------------------------------------------------------------------------
(* Properties of concurrent tts requests, checked under SpecTtsPool *)

PoolResponse(r) == ttsPool.req[r].res[1]

\* C22: concurrent tts requests are independent: in every interleaving at
\* the await points, also when the requests compute the same temporary
\* path, each response carries the audio synthesized from the request's own
\* text, and no request fails or loses its file because of another
\* request's write or delete.
C22_ConcurrentTtsRequestsAreIndependent ==
    \A r \in TtsRequests :
        LET q == ttsPool.req[r] IN
        /\ Len(q.res) <= 1
        /\ q.pc = "done" =>
              /\ Len(q.res) = 1
              /\ IF q.fault = "none"
                 THEN /\ PoolResponse(r).status = 200
                      /\ PoolResponse(r).body.audio = AudioOf(PoolText(r))
                 ELSE PoolResponse(r).status = 500

C22_Witness ==
    /\ \A r \in TtsRequests :
          ttsPool.req[r].pc = "done" /\ ttsPool.req[r].fault = "none"
    /\ PoolResponse(1).body.audio = AudioOf(PoolText(1))
    /\ PoolResponse(2).body.audio = AudioOf(PoolText(2))
    /\ ttsPool.req[1].computed = ttsPool.req[2].computed

----------------------------------------------------------------------------
(* Properties of the batch upsert *)

\* The upsert calls in the order they were made.
UpsertLog == SelectSeq(calls, LAMBDA c : c.cap = "upsert")

\* The ids of the records of the batches before batch j.
IdsBefore(j) ==
    {<<up.fileName, "-chunk-", i>> :
        i \in {k \in 0..(up.chunks - 1) : k < j * batchSize}}

\* C25: records are upserted in consecutive fixed-size batches in sequence
\* order; if the upsert of batch j fails, batches 0..j-1 stay in the index,
\* batch j is not tried again and no later batch is attempted, and the
\* request reports a failure, not a success count.
C25_BatchFailureStopsWithoutRollback ==
    /\ \A k \in DOMAIN UpsertLog :
          /\ UpsertLog[k].first = (k - 1) * batchSize
          /\ UpsertLog[k].size =
                IF up.chunks - UpsertLog[k].first < batchSize
                THEN up.chunks - UpsertLog[k].first ELSE batchSize
          /\ k < Len(UpsertLog) => UpsertLog[k].outcome = "resolved"
    /\ (Rejected("upsert") # {} /\ up.pc = "done") =>
          LET j == Len(UpsertLog) - 1 IN
          /\ UpsertLog[j + 1].outcome = "rejected"
          /\ calls[Len(calls)] = UpsertLog[j + 1]
          /\ DOMAIN index = DOMAIN OldIndex \cup IdsBefore(j)
          /\ \A id \in IdsBefore(j) : index[id] = ChunkText(up.fileName, id[3])
          /\ \A id \in DOMAIN OldIndex \ IdsBefore(j) : index[id] = OldIndex[id]
          /\ upRes = <<IndexWriteError>>
          /\ ~ Has(UploadResponse.body, "chunksEmbedded")

\* The second of three batches failed.
C25_Witness ==
    /\ up.pc = "done" /\ up.chunks = MaxChunks
    /\ Len(UpsertLog) = 2 /\ UpsertLog[2].outcome = "rejected"
    /\ <<up.fileName, "-chunk-", batchSize - 1>> \in DOMAIN index
    /\ <<up.fileName, "-chunk-", batchSize>> \notin DOMAIN index

----------------------------------------------------------------------------
(* Properties of the stored upload *)

\* C26: the stored copy of the uploaded file is removed on any error: when
\* an upload request ends with an error response after the file was
\* stored, the stored file no longer exists, and it exists after the
\* request only when ingestion succeeded.
C26_StoredFileRemovedOnAnyError ==
    (up.pc = "done" /\ up.filePath # NoPath) =>
        (up.filePath \in files <=> UploadResponse.status = 200)

----------------------------------------------------------------------------
(* Properties of the query text *)

TranscriptionResolved ==
    \E i \in CallsOf("transcribe") : calls[i].outcome = "resolved"

\* The supplied question if it is non-empty, otherwise the transcription.
QuestionOrTranscription ==
    IF askReq.question # "" THEN askReq.question ELSE ask.transcription

\* C27: the text used for retrieval and the text sent to the model as the
\* user question are the same string: the supplied question if non-empty,
\* otherwise the transcription; if both are empty the request ends with a
\* client error and no embedding, index query or generation call is made;
\* the transcription field of a successful response is the transcription,
\* never the supplied question.
C27_OneQueryText ==
    /\ \A i \in CallsOf("embedQuery") : calls[i].text = QuestionOrTranscription
    /\ \A i \in GenerateCalls : calls[i].question = QuestionOrTranscription
    /\ \A i \in DOMAIN calls :
          calls[i].cap \in {"embedQuery", "generate"} =>
              QuestionOrTranscription # "" /\ TranscriptionResolved
    /\ (TranscriptionResolved /\ QuestionOrTranscription = "") =>
          /\ ask.pc = "done" /\ Len(askRes) = 1
          /\ AskResponse.status >= 400 /\ AskResponse.status < 500
          /\ Count("embedQuery") = 0 /\ Count("query") = 0 /\ Count("generate") = 0
    /\ (askRes # <<>> /\ AskResponse.status = 200) =>
          AskResponse.body.transcription = ask.transcription

\* A question was supplied with the audio, and both texts differ.
C27_Witness ==
    /\ askRes # <<>> /\ AskResponse.status = 200
    /\ askReq.question = "what is npv" /\ ask.transcription = "what is wacc"
    /\ AskResponse.body.transcription = "what is wacc"
    /\ \E i \in GenerateCalls : calls[i].question = "what is npv"

----------------------------------------------------------------------------
(* Properties of the responses *)

\* C28: every request to the ask, upload and tts endpoints produces exactly
\* one HTTP response on every path: no path ends without a response and no
\* path sends a second one after one was sent, also when something fails
\* after the success response or the authentication wrapper catches an
\* error.
C28_ExactlyOneResponse ==
    /\ Len(askRes) <= 1 /\ Len(ttsRes) <= 1 /\ Len(upRes) <= 1
    /\ ask.pc = "done" => Len(askRes) = 1
    /\ tts.pc = "done" => Len(ttsRes) = 1
    /\ up.pc = "done" => Len(upRes) = 1

----------------------------------------------------------------------------
(* Properties of withApiKeyAuth *)

\* The configured key is set and the key of the request is present and
\* equal to it.
KeyOk(req) ==
    env.INTERNAL_API_KEY # "" /\ req.key # "" /\ req.key = env.INTERNAL_API_KEY

\* What holds of a route once the wrapper has decided on its request.
Guarded(req, pc, res) ==
    (req # NoReq /\ pc \notin {"idle", "received"}) =>
        IF KeyOk(req)
        THEN res = <<>> \/ res[1] # Unauthorized
        ELSE /\ res = <<Unauthorized>> /\ pc = "done"
             /\ calls = <<>> /\ files = {} /\ index = OldIndex

\* C29: a handler wrapped by withApiKeyAuth runs only when the configured
\* internal key is set and the key in the request header is present and
\* equal to it; in every other case the request gets the Unauthorized
\* response, the handler is never called, and no capability call and no
\* file or index write takes place.
C29_HandlerRunsOnlyWhenAuthorized ==
    /\ Guarded(askReq, ask.pc, askRes)
    /\ Guarded(ttsReq, tts.pc, ttsRes)
    /\ Guarded(upReq, up.pc, upRes)

\* Neither key is set: the request is refused although the keys are equal.
C29_Witness ==
    /\ env.INTERNAL_API_KEY = "" /\ upReq # NoReq /\ upReq.key = ""
    /\ upReq.method = "POST" /\ upReq.form = "pdf"
    /\ up.pc = "done" /\ upRes = <<Unauthorized>> /\ files = {}

----------------------------------------------------------------------------
(* C30: what the page shows belongs to one request *)

\* The recording a shown value belongs to.
Owner(value) == value[Len(value)]

\* The recordings whose values the page shows.
ShownOwners ==
    {Owner(pagePool.shown[f]) :
        f \in {f \in {"transcription", "answer", "scratchpad", "audioUrl", "error"} :
                  pagePool.shown[f] # <<>>}}

PoolSettled == \A r \in Recordings : pagePool.inv[r] = "done"

\* C30: after two overlapping recordings have been handled, the
\* transcription, answer, scratchpad, audio and error the page shows all
\* belong to one and the same recording.
C30_ShownBelongsToOneRequest ==
    (caller = "recordings" /\ pagePool.overlap /\ PoolSettled)
        => Cardinality(ShownOwners) <= 1

====
